---------------------------- MODULE Spec2Model ----------------------------
(***************************************************************************)
(* Model of li-xiu-qi/test_pg_vector_search:                               *)
(*   src/main.py                    the retrieval orchestrator and the     *)
(*                                  ModelScope cache locator               *)
(*   src/scripts/download_model.py  the model download utility             *)
(*                                                                         *)
(* Strings are sequences of tokens: the token "/" is the path separator,   *)
(* every other token is a run of characters without a separator.           *)
(***************************************************************************)
EXTENDS Integers, Sequences, FiniteSets, TLC

VARIABLES
    pc,            \* position of the running script
    runs,          \* number of process runs started so far
    raised,        \* the exception that left main ("none" when none did)
    stdout,        \* messages printed by the current run
    model_id,      \* the model identifier handed to the locator
    fs,            \* the paths that exist on the filesystem
    local_path,    \* main.py: result of find_modelscope_cache_path
    model_source,  \* main.py: what SentenceTransformer is loaded from
    model,         \* main.py: the loaded provider
    provider,      \* the opaque text -> vector function of the model files
    embeddings,    \* main.py: encode(texts)
    q_arr,         \* main.py: the query vector literal
    conn,          \* main.py: the psycopg2 connection of this process
    driver,        \* main.py: the psycopg2 release that is installed
    db,            \* the PostgreSQL database as committed (persists across runs)
    tx,            \* the database as the open transaction of conn sees it
    results,       \* main.py: rows of the L2 query
    cos_results,   \* main.py: rows of the cosine query
    steps,         \* the orchestrator steps performed by the current run
    batch,         \* the rows handed to execute_values
    argv,          \* download_model.py: command line
    pkgs,          \* download_model.py: is modelscope importable
    hub,           \* download_model.py: what the fetch mechanism will do
    cache,         \* download_model.py: models already in the cache
    rc             \* download_model.py: value returned by main

vars == <<pc, runs, raised, stdout, model_id, fs, local_path, model_source,
          model, provider, embeddings, q_arr, conn, driver, db, tx, results,
          cos_results, steps, batch, argv, pkgs, hub, cache, rc>>

locVars == <<model_id, fs, local_path>>
orchVars == <<model_source, model, provider, embeddings, q_arr, conn, driver, tx,
              results, cos_results, steps>>
dlVars == <<argv, pkgs, hub, cache, rc>>

\* Optional values: None is the empty sequence, a value x is <<x>>
None == <<>>
Some(x) == <<x>>

(***************************************************************************)
(* Bounds of the model.                                                    *)
(***************************************************************************)
MaxIdLen == 3      \* longest model identifier given to the locator, in tokens
MaxRuns == 2       \* runs of a script against the same database / machine
MaxBatch == 101    \* largest batch handed to the bulk insert

(***************************************************************************)
(* Strings: str.split("/"), str.replace("/", x)                            *)
(***************************************************************************)
Sep == "/"

RECURSIVE Split(_)
\* s.split("/"): the list of (possibly empty) segments between separators
Split(s) ==
    IF s = <<>> THEN << <<>> >>
    ELSE LET rest == Split(Tail(s))
         IN  IF Head(s) = Sep
             THEN << <<>> >> \o rest
             ELSE << <<Head(s)>> \o Head(rest) >> \o Tail(rest)

\* s.replace("/", x)
Replace(s, x) == [i \in 1..Len(s) |-> IF s[i] = Sep THEN x ELSE s[i]]

RECURSIVE NonEmpty(_)
NonEmpty(segs) ==
    IF segs = <<>> THEN <<>>
    ELSE IF Head(segs) = <<>> THEN NonEmpty(Tail(segs))
         ELSE <<Head(segs)>> \o NonEmpty(Tail(segs))

RECURSIVE LeadingSeps(_)
LeadingSeps(s) ==
    IF s # <<>> /\ Head(s) = Sep THEN 1 + LeadingSeps(Tail(s)) ELSE 0

(***************************************************************************)
(* pathlib: a path is an anchor ("", "/" or "//") and a list of segments.  *)
(***************************************************************************)
\* the anchor pathlib gives a POSIX string: exactly two leading slashes are
\* kept as "//", one or more than two collapse to "/"
Anchor(s) ==
    LET n == LeadingSeps(s)
    IN  IF n = 0 THEN <<>> ELSE IF n = 2 THEN <<Sep, Sep>> ELSE <<Sep>>

\* p / s : an anchored s replaces p, otherwise its non-empty segments are
\* appended
Join(p, s) ==
    IF Anchor(s) # <<>>
    THEN [anchor |-> Anchor(s), parts |-> NonEmpty(Split(s))]
    ELSE [anchor |-> p.anchor, parts |-> p.parts \o NonEmpty(Split(s))]

RECURSIVE JoinSegs(_)
JoinSegs(parts) ==
    IF parts = <<>> THEN <<>>
    ELSE IF Len(parts) = 1 THEN parts[1]
         ELSE parts[1] \o <<Sep>> \o JoinSegs(Tail(parts))

\* str(path)
PathStr(p) ==
    IF p.anchor = <<>> /\ p.parts = <<>> THEN <<".">>
    ELSE p.anchor \o JoinSegs(p.parts)

\* Path.home()
Home == [anchor |-> <<Sep>>, parts |-> << <<"home">>, <<"user">> >>]

\* a path exists on the filesystem
Exists(files, p) == p \in files

Ancestors(p) ==
    {[anchor |-> p.anchor, parts |-> SubSeq(p.parts, 1, k)] : k \in 0..Len(p.parts)}

(***************************************************************************)
(* main.py: find_modelscope_cache_path                                     *)
(***************************************************************************)
CacheBase ==
    Join(Join(Join(Join(Home, <<".cache">>), <<"modelscope">>), <<"hub">>),
         <<"models">>)

\* a plausible slip: the escaped names are tried before the owner/name path
CandidatesEscapedFirst(id) ==
    LET parts == Split(id)
        first == IF Len(parts) = 2
                 THEN Join(Join(CacheBase, parts[1]), parts[2])
                 ELSE Join(CacheBase, id)
    IN  <<Join(CacheBase, Replace(id, "-")), Join(CacheBase, Replace(id, "_")), first>>

\* lines 16-29
Candidates(id) ==
    LET parts == Split(id)
        first == IF Len(parts) = 2
                 THEN Join(Join(CacheBase, parts[1]), parts[2])
                 ELSE Join(CacheBase, id)
    IN  <<first, Join(CacheBase, Replace(id, "-")), Join(CacheBase, Replace(id, "_"))>>

RECURSIVE FirstExisting(_, _)
FirstExisting(files, cands) ==
    IF cands = <<>> THEN None
    ELSE IF Exists(files, Head(cands)) THEN Some(Head(cands))
         ELSE FirstExisting(files, Tail(cands))

find_modelscope_cache_path(id, files) == FirstExisting(files, Candidates(id))

(***************************************************************************)
(* The identifiers and filesystems the locator is run on.                  *)
(***************************************************************************)
Alphabet == {"a", "b", Sep}

Ids == UNION {[1..n -> Alphabet] : n \in 0..MaxIdLen}

Range(f) == {f[i] : i \in DOMAIN f}

\* every filesystem in which some of the candidate paths of id exist; a path
\* exists together with its ancestors
FsStates(id) ==
    {UNION {Ancestors(p) : p \in S} : S \in SUBSET Range(Candidates(id))}

DEFAULT_MODEL == <<"BAAI", Sep, "bge-m3">>

(***************************************************************************)
(* The embedding provider (an opaque function text -> vector) and vectors. *)
(* A vector is its width and its two leading coordinates; every further    *)
(* coordinate is zero.  Unit length is 5 in the integer scale used here.   *)
(***************************************************************************)
texts == <<"zh_test_sentence", "Hello world">>
q == "zh_query_sentence"
AllTexts == Range(texts) \cup {q}

SchemaDim == 1024                 \* embedding vector(1024)
Widths == {SchemaDim, 768}        \* output widths of the model files
RawVecs == {<<5, 0>>, <<3, 4>>, <<6, 8>>}
Coords == -10..10

Dot(a, b) == a[1] * b[1] + a[2] * b[2]
ISqrt(x) == CHOOSE k \in 0..x : k * k <= x /\ x < (k + 1) * (k + 1)
L2Norm(a) == ISqrt(Dot(a, a))
Normalize(a) == [i \in 1..2 |-> (a[i] * 5) \div L2Norm(a)]
IsUnit(a) == Dot(a, a) = 5 * 5

\* the model files: an output width and a vector for each text; the two corpus
\* texts get vectors of different directions
Providers ==
    {m \in [width : Widths, raw : [AllTexts -> RawVecs]] :
        Normalize(m.raw[texts[1]]) # Normalize(m.raw[texts[2]])}

\* model.encode(txts, normalize_embeddings=normalize)
encode(m, txts, normalize) ==
    [i \in 1..Len(txts) |->
        [width |-> m.width,
         lead  |-> IF normalize THEN Normalize(m.raw[txts[i]]) ELSE m.raw[txts[i]]]]

\* f"[{','.join(str(x) for x in vec)}]": the literal has vec.width numbers
VecLiteral(vec) ==
    [n |-> vec.width, lead |-> [i \in 1..2 |-> ToString(vec.lead[i])]]

\* pgvector's input function: the text of each number is read back
ParseNum(s) == CHOOSE n \in Coords : ToString(n) = s
ParseVector(lit) ==
    [width |-> lit.n, lead |-> [i \in 1..2 |-> ParseNum(lit.lead[i])]]

(***************************************************************************)
(* Distances, as exact fractions [num, den].  The <-> operator is the L2   *)
(* norm of the difference; its square is kept, which orders the same way.  *)
(***************************************************************************)
L2Distance(a, b) ==
    [num |-> (a[1] - b[1]) * (a[1] - b[1]) + (a[2] - b[2]) * (a[2] - b[2]),
     den |-> 1]

\* <=> : 1 - (a . b) / (|a| |b|)
CosineDistance(a, b) ==
    [num |-> L2Norm(a) * L2Norm(b) - Dot(a, b), den |-> L2Norm(a) * L2Norm(b)]

DistLess(x, y) == x.num * y.den < y.num * x.den
DistEq(x, y) == x.num * y.den = y.num * x.den
DistLeq(x, y) == DistLess(x, y) \/ DistEq(x, y)

(***************************************************************************)
(* The database: the catalog, the items table and its id sequence.         *)
(* A statement returns the database it leaves and the error it raises; a   *)
(* statement that fails changes nothing.                                   *)
(***************************************************************************)
EmptyDb == [extensions |-> <<>>, tables |-> <<>>, dim |-> 0, rows |-> <<>>,
            serial |-> 0]

Ok(d) == [db |-> d, err |-> "none"]
Err(d, e) == [db |-> d, err |-> e]

\* CREATE EXTENSION IF NOT EXISTS vector;
CreateExtension(d) ==
    IF "vector" \in Range(d.extensions) THEN Ok(d)
    ELSE Ok([d EXCEPT !.extensions = Append(@, "vector")])

\* a plausible slip: CREATE TABLE items (...) without IF NOT EXISTS
CreateTablePlain(d) ==
    IF "vector" \notin Range(d.extensions) THEN Err(d, "UndefinedObject")
    ELSE IF "items" \in Range(d.tables) THEN Err(d, "DuplicateTable")
    ELSE Ok([d EXCEPT !.tables = Append(@, "items"), !.dim = SchemaDim])

\* CREATE TABLE IF NOT EXISTS items (id SERIAL PRIMARY KEY, text TEXT NOT NULL,
\*                                   embedding vector(1024) NOT NULL);
CreateTable(d) ==
    IF "vector" \notin Range(d.extensions) THEN Err(d, "UndefinedObject")
    ELSE IF "items" \in Range(d.tables) THEN Ok(d)
    ELSE Ok([d EXCEPT !.tables = Append(@, "items"), !.dim = SchemaDim])

\* a plausible slip: rows whose text is already stored are skipped
InsertStatementDedup(d, page) ==
    LET fresh == SelectSeq(page, LAMBDA r :
                     \A j \in 1..Len(d.rows) : d.rows[j].text # r.text)
    IN  IF "items" \notin Range(d.tables) THEN Err(d, "UndefinedTable")
        ELSE IF \E i \in 1..Len(page) : ParseVector(page[i].lit).width # d.dim
        THEN Err(d, "DataException")
        ELSE Ok([d EXCEPT
                 !.rows = @ \o [i \in 1..Len(fresh) |->
                                  [id        |-> d.serial + i,
                                   text      |-> fresh[i].text,
                                   embedding |-> ParseVector(fresh[i].lit)]],
                 !.serial = @ + Len(fresh)])

\* one INSERT INTO items (text, embedding) VALUES (...), (...) statement
InsertStatement(d, page) ==
    IF "items" \notin Range(d.tables) THEN Err(d, "UndefinedTable")
    ELSE IF \E i \in 1..Len(page) : ParseVector(page[i].lit).width # d.dim
    THEN Err(d, "DataException")
    ELSE Ok([d EXCEPT
             !.rows = @ \o [i \in 1..Len(page) |->
                              [id        |-> d.serial + i,
                               text      |-> page[i].text,
                               embedding |-> ParseVector(page[i].lit)]],
             !.serial = @ + Len(page)])

\* psycopg2.extras.execute_values: page_size is left at its default
page_size == 100

Min(a, b) == IF a < b THEN a ELSE b

RECURSIVE execute_values(_, _)
\* the rows are sent page by page, one INSERT statement per page
execute_values(d, rws) ==
    IF rws = <<>> THEN Ok(d)
    ELSE LET n == Min(page_size, Len(rws))
             r == InsertStatement(d, SubSeq(rws, 1, n))
         IN  IF r.err # "none" THEN r
             ELSE execute_values(r.db, SubSeq(rws, n + 1, Len(rws)))

\* LIMIT 3
TopK == 3

Distance(metric, a, b) ==
    IF metric = "l2" THEN L2Distance(a, b) ELSE CosineDistance(a, b)

\* ORDER BY distance ASC LIMIT m over rows whose distances are dists: every
\* answer PostgreSQL may give.  Rows of equal distance come in an order the
\* statement does not fix.
OrderByLimit(rows, dists, m) ==
    LET n == Len(rows)
        picks == {s \in [1..m -> 1..n] :
                    /\ \A i, j \in 1..m : i < j => s[i] # s[j]
                    /\ \A i, j \in 1..m : i < j => DistLeq(dists[s[i]], dists[s[j]])
                    /\ \A i \in 1..n : \A j \in 1..m :
                          (\A l \in 1..m : s[l] # i) => DistLeq(dists[s[j]], dists[i])}
    IN  {[j \in 1..m |-> [id       |-> rows[s[j]].id,
                          text     |-> rows[s[j]].text,
                          distance |-> dists[s[j]]]] : s \in picks}

RECURSIVE Distances(_, _, _)
\* embedding <metric> qv, for each row
Distances(rows, metric, qv) ==
    IF rows = <<>> THEN <<>>
    ELSE <<Distance(metric, Head(rows).embedding.lead, qv)>>
             \o Distances(Tail(rows), metric, qv)

\* SELECT id, text, embedding <metric> lit AS distance FROM items
\* ORDER BY distance ASC LIMIT k
QueryNearest(d, lit, metric, k) ==
    OrderByLimit(d.rows, Distances(d.rows, metric, ParseVector(lit).lead),
                 Min(k, Len(d.rows)))

(***************************************************************************)
(* main.py: main                                                           *)
(***************************************************************************)
\* lines 43-48: the local path when the locator found one, else the raw id
ModelSourceAlwaysId(lp, id) == id

ModelSource(lp, id) == IF lp # None THEN PathStr(lp[1]) ELSE id

\* lines 80-84
Rows(txts, embs) ==
    [i \in 1..Len(txts) |-> [text |-> txts[i], lit |-> VecLiteral(embs[i])]]

\* lines 64-65: conn.autocommit = True, then "with conn:".  Up to psycopg2
\* 2.8 an autocommit connection never opens a transaction: every statement
\* of the block is committed as it succeeds.  From psycopg2 2.9 on the
\* block is one transaction, committed when the block is left normally and
\* rolled back when an exception leaves it.  In both the block leaves conn
\* open.
Drivers == {"psycopg2 < 2.9", "psycopg2 >= 2.9"}
BlockIsTransaction == driver = "psycopg2 >= 2.9"

\* the database as the statements of conn see it
View == IF tx # None THEN tx[1] ELSE db

\* ROLLBACK: the values a sequence has handed out are not given back
Rollback(committed, seen) ==
    IF "items" \in Range(committed.tables)
    THEN [committed EXCEPT !.serial = seen.serial]
    ELSE committed

ProcessInit ==
    /\ pc = "start"
    /\ raised = "none"
    /\ stdout = <<>>
    /\ local_path = None
    /\ model_source = <<>>
    /\ model = None
    /\ embeddings = <<>>
    /\ q_arr = None
    /\ conn = "none"
    /\ tx = None
    /\ results = <<>>
    /\ cos_results = <<>>
    /\ steps = <<>>
    /\ rc = None

\* a new process starts: nothing of the last one is left in memory
ProcessStart ==
    /\ pc' = "start"
    /\ raised' = "none"
    /\ stdout' = <<>>
    /\ local_path' = None
    /\ model_source' = <<>>
    /\ model' = None
    /\ embeddings' = <<>>
    /\ q_arr' = None
    /\ conn' = "none"
    /\ tx' = None
    /\ results' = <<>>
    /\ cos_results' = <<>>
    /\ steps' = <<>>
    /\ rc' = None

Unused == /\ batch = <<>>
          /\ argv = <<>>
          /\ pkgs = FALSE
          /\ hub = "none"
          /\ cache = {}

Init ==
    /\ ProcessInit
    /\ Unused
    /\ runs = 1
    /\ model_id = DEFAULT_MODEL
    /\ fs \in FsStates(DEFAULT_MODEL)
    /\ provider \in Providers
    /\ driver \in Drivers
    /\ db = EmptyDb

Step(from, to, name) ==
    /\ pc = from
    /\ pc' = to
    /\ steps' = Append(steps, name)

Raise(e) ==
    /\ pc' = "raised"
    /\ raised' = e

\* lines 41-48
Locate ==
    /\ Step("start", "load", "resolve")
    /\ local_path' = find_modelscope_cache_path(model_id, fs)
    /\ model_source' = ModelSource(local_path', model_id)
    /\ UNCHANGED <<driver, tx, runs, raised, stdout, model_id, fs, model, provider, embeddings,
                   q_arr, conn, db, results, cos_results, batch, dlVars>>

\* line 50
LoadProvider ==
    /\ Step("load", "encode", "load")
    /\ model' = Some([source |-> model_source, width |-> provider.width,
                      raw |-> provider.raw])
    /\ UNCHANGED <<driver, tx, runs, raised, stdout, locVars, model_source, provider,
                   embeddings, q_arr, conn, db, results, cos_results, batch, dlVars>>

\* line 50: the model files are unreadable, or the online fetch fails
LoadRaises ==
    /\ pc = "load"
    /\ Raise("OSError")
    /\ UNCHANGED <<runs, stdout, locVars, orchVars, db, batch, dlVars>>

\* lines 51-53
EncodeCorpus ==
    /\ Step("encode", "connect", "encode_corpus")
    /\ embeddings' = encode(model[1], texts, TRUE)
    /\ UNCHANGED <<driver, tx, runs, raised, stdout, locVars, model_source, model, provider,
                   q_arr, conn, db, results, cos_results, batch, dlVars>>

\* lines 57-66
Connect ==
    /\ Step("connect", "create_ext", "connect")
    /\ conn' = "open"
    /\ UNCHANGED <<driver, tx, runs, raised, stdout, locVars, model_source, model, provider,
                   embeddings, q_arr, db, results, cos_results, batch, dlVars>>

\* line 57: the database is unreachable or rejects the credentials
ConnectRaises ==
    /\ pc = "connect"
    /\ Raise("OperationalError")
    /\ UNCHANGED <<runs, stdout, locVars, orchVars, db, batch, dlVars>>

\* the statement succeeded and left d
Succeed(d) ==
    IF BlockIsTransaction THEN tx' = Some(d) /\ db' = db
    ELSE tx' = None /\ db' = d

\* an exception leaves the with block, the statements having left d
Fail(d) ==
    /\ tx' = None
    /\ db' = IF BlockIsTransaction THEN Rollback(db, d) ELSE d

\* a statement of the with block run on the view: r is what it returns
Statement(from, to, name, r) ==
    /\ pc = from
    /\ steps' = Append(steps, name)
    /\ IF r.err = "none"
       THEN pc' = to /\ raised' = raised /\ Succeed(r.db)
       ELSE Raise(r.err) /\ Fail(r.db)

\* line 68
EnsureExtension ==
    /\ Statement("create_ext", "create_table", "ensure_schema", CreateExtension(View))
    /\ UNCHANGED <<driver, runs, stdout, locVars, model_source, model, provider, embeddings,
                   q_arr, conn, results, cos_results, batch, dlVars>>

\* lines 69-77
EnsureTable ==
    /\ Statement("create_table", "insert", "ensure_schema", CreateTable(View))
    /\ UNCHANGED <<driver, runs, stdout, locVars, model_source, model, provider, embeddings,
                   q_arr, conn, results, cos_results, batch, dlVars>>

\* lines 80-90
Insert ==
    /\ pc = "insert"
    /\ batch' = Rows(texts, embeddings)
    /\ Statement("insert", "encode_query", "insert", execute_values(View, batch'))
    /\ UNCHANGED <<driver, runs, stdout, locVars, model_source, model, provider, embeddings,
                   q_arr, conn, results, cos_results, dlVars>>

\* lines 95-97
EncodeQuery ==
    /\ Step("encode_query", "query_l2", "encode_query")
    /\ q_arr' = Some(VecLiteral(encode(model[1], <<q>>, TRUE)[1]))
    /\ UNCHANGED <<driver, tx, runs, raised, stdout, locVars, model_source, model, provider,
                   embeddings, conn, db, results, cos_results, batch, dlVars>>

\* lines 98-110
QueryL2 ==
    /\ Step("query_l2", "query_cos", "query_l2")
    /\ results' \in QueryNearest(View, q_arr[1], "l2", TopK)
    /\ UNCHANGED <<driver, tx, runs, raised, stdout, locVars, model_source, model, provider,
                   embeddings, q_arr, conn, db, cos_results, batch, dlVars>>

\* lines 114-127
QueryCosine ==
    /\ Step("query_cos", "exit_with", "query_cos")
    /\ cos_results' \in QueryNearest(View, q_arr[1], "cosine", TopK)
    /\ UNCHANGED <<driver, tx, runs, raised, stdout, locVars, model_source, model, provider,
                   embeddings, q_arr, conn, db, results, batch, dlVars>>

\* lines 66-127: the server or the link fails while a statement runs, or
\* the provider fails to embed the query
BlockRaises ==
    /\ pc \in {"create_ext", "create_table", "insert", "encode_query", "query_l2",
               "query_cos"}
    /\ Raise(IF pc = "encode_query" THEN "RuntimeError" ELSE "OperationalError")
    /\ Fail(View)
    /\ UNCHANGED <<runs, stdout, locVars, model_source, model, provider, embeddings,
                   q_arr, conn, driver, results, cos_results, steps, batch, dlVars>>

\* line 65: the with block is left normally: COMMIT
ExitWith ==
    /\ pc = "exit_with"
    /\ pc' = "close"
    /\ db' = View
    /\ tx' = None
    /\ UNCHANGED <<runs, raised, stdout, locVars, model_source, model, provider,
                   embeddings, q_arr, conn, driver, results, cos_results, steps,
                   batch, dlVars>>

\* line 129
Close ==
    /\ Step("close", "done", "close")
    /\ conn' = "closed"
    /\ UNCHANGED <<driver, tx, runs, raised, stdout, locVars, model_source, model, provider,
                   embeddings, q_arr, db, results, cos_results, batch, dlVars>>

\* lines 132-133: the script is run again; the database, the filesystem and
\* the model files are what the earlier run left
Rerun ==
    /\ pc \in {"done", "raised"}
    /\ runs < MaxRuns
    /\ runs' = runs + 1
    /\ ProcessStart
    /\ UNCHANGED <<driver, model_id, fs, provider, db, batch, argv, pkgs, hub, cache>>

Next ==
    \/ Locate
    \/ LoadProvider
    \/ LoadRaises
    \/ EncodeCorpus
    \/ Connect
    \/ ConnectRaises
    \/ EnsureExtension
    \/ EnsureTable
    \/ Insert
    \/ EncodeQuery
    \/ QueryL2
    \/ QueryCosine
    \/ BlockRaises
    \/ ExitWith
    \/ Close
    \/ Rerun

Spec == Init /\ [][Next]_vars

(***************************************************************************)
(* Properties of the orchestrator (specification Spec).                    *)
(***************************************************************************)
IsPrefix(a, b) == Len(a) <= Len(b) /\ \A i \in 1..Len(a) : a[i] = b[i]
ItemIds(r) == [i \in 1..Len(r) |-> r[i].id]
Count(seq, x) == Cardinality({i \in 1..Len(seq) : seq[i] = x})
SchemaExists(d) == "vector" \in Range(d.extensions) /\ "items" \in Range(d.tables)
RowOf(d, id) == CHOOSE r \in Range(d.rows) : r.id = id

OrderedByDistanceThenId(r) ==
    \A i, j \in 1..Len(r) :
        i < j => \/ DistLess(r[i].distance, r[j].distance)
                 \/ /\ DistEq(r[i].distance, r[j].distance)
                    /\ r[i].id < r[j].id

\* C1: each nearest-neighbour query returns at most k rows, ascending by
\* distance, rows of equal distance in ascending id order.
C1_OrderedTiesById ==
    /\ Len(results) <= TopK /\ OrderedByDistanceThenId(results)
    /\ Len(cos_results) <= TopK /\ OrderedByDistanceThenId(cos_results)

\* The part of C1 the statement does fix: at most k rows, never descending.
C1_OrderedByDistance ==
    \A r \in {results, cos_results} :
        /\ Len(r) <= TopK
        /\ \A i, j \in 1..Len(r) : i < j => DistLeq(r[i].distance, r[j].distance)

AllUnit ==
    /\ \A i \in 1..Len(View.rows) : IsUnit(View.rows[i].embedding.lead)
    /\ q_arr # None /\ IsUnit(ParseVector(q_arr[1]).lead)

\* C2: with unit vectors stored and queried and k no larger than the corpus,
\* the euclidean query and the cosine query return the same ids in the same
\* order.
C2_SameIdOrdering ==
    (pc \in {"exit_with", "close", "done"} /\ TopK <= Len(View.rows) /\ AllUnit)
        => ItemIds(results) = ItemIds(cos_results)

\* What the two queries do agree on: position by position, the same vector.
C2_SameVectorOrdering ==
    (pc \in {"exit_with", "close", "done"} /\ AllUnit)
        => /\ Len(results) = Len(cos_results)
           /\ \A i \in 1..Len(results) :
                 RowOf(View, results[i].id).embedding
                     = RowOf(View, cos_results[i].id).embedding

\* C4: when main is left, normally or by an exception, the connection it
\* opened has been closed.
C4_ConnectionReleased == pc \in {"done", "raised"} => conn # "open"

\* How the connection is left open: an exception inside the with block.
C4_LeftOpen == pc = "raised" /\ conn = "open"

\* C8: ensure_schema run on a database that has the schema raises nothing
\* and changes nothing; once it has run there is one vector extension and
\* one items table.
C8_SchemaIdempotent ==
    [][/\ (pc \in {"create_ext", "create_table"} /\ steps' # steps
             /\ SchemaExists(View))
          => (raised' = "none" /\ View' = View /\ db' = db)
       /\ (pc = "create_table" /\ pc' = "insert")
          => (Count(View'.extensions, "vector") = 1 /\ Count(View'.tables, "items") = 1)
      ]_vars

C8_Witness == runs = 2 /\ pc = "insert" /\ Len(db.rows) = Len(texts) /\ View = db

ClaimedOrder ==
    <<"resolve", "load", "ensure_schema", "ensure_schema", "insert", "query_l2",
      "query_cos">>

\* C9: the provider is loaded from the local path iff the locator found one
\* and from the raw identifier iff it found none; a cache miss raises
\* nothing; the steps come in the order resolve, load, ensure schema,
\* insert, euclidean query, cosine query.
C9_SourceAndOrder ==
    /\ model # None =>
          /\ (local_path # None /\ model[1].source = PathStr(local_path[1]))
                <=> (local_path # None)
          /\ (model[1].source = model_id) <=> (local_path = None)
    /\ raised # "none" => Len(steps) >= 1
    /\ IsPrefix(SelectSeq(steps, LAMBDA x : x \in Range(ClaimedOrder)), ClaimedOrder)
    /\ (pc # "raised" /\ \E i \in 1..Len(steps) : steps[i] = "insert")
          => SchemaExists(View)

C9_Witness ==
    /\ pc = "done" /\ local_path # None
    /\ model[1].source = PathStr(local_path[1])
    /\ Len(db.rows) > 0

Idle ==
    /\ provider = CHOOSE m \in Providers : TRUE
    /\ driver = "psycopg2 >= 2.9"
    /\ db = EmptyDb

InitLocate ==
    /\ ProcessInit
    /\ Unused
    /\ Idle
    /\ runs = 1
    /\ model_id \in Ids
    /\ fs \in FsStates(model_id)

\* main.py line 42, for any model_id
CallLocate ==
    /\ pc = "start"
    /\ pc' = "located"
    /\ local_path' = find_modelscope_cache_path(model_id, fs)
    /\ UNCHANGED <<runs, raised, stdout, model_id, fs, orchVars, db, batch, dlVars>>

NextLocate == CallLocate

SpecLocate == InitLocate /\ [][NextLocate]_vars

\* the candidates as the design lists them
ListedCandidates(id) ==
    LET segs == Split(id)
        base == [anchor |-> <<Sep>>,
                 parts |-> << <<"home">>, <<"user">>, <<".cache">>, <<"modelscope">>,
                              <<"hub">>, <<"models">> >>]
    IN  << IF Len(segs) = 2 THEN Join(Join(base, segs[1]), segs[2])
                            ELSE Join(base, id),
           Join(base, Replace(id, "-")),
           Join(base, Replace(id, "_")) >>

\* C5: locate returns the first listed candidate that exists, and no result
\* exactly when no candidate exists.
C5_FirstExistingCandidate ==
    pc = "located" =>
        LET cs == ListedCandidates(model_id)
        IN  /\ (local_path = None) <=> (\A i \in 1..Len(cs) : cs[i] \notin fs)
            /\ local_path # None =>
                  \E i \in 1..Len(cs) :
                      /\ local_path[1] = cs[i]
                      /\ cs[i] \in fs
                      /\ \A j \in 1..(i - 1) : cs[j] \notin fs
            /\ \A i \in 1..Len(cs) :
                  (cs[i] \in fs /\ \A j \in 1..Len(cs) : cs[j] \in fs => cs[j] = cs[i])
                      => local_path = Some(cs[i])

C5_Witness ==
    /\ pc = "located"
    /\ Len(Split(model_id)) = 2
    /\ ListedCandidates(model_id)[1] \notin fs
    /\ ListedCandidates(model_id)[2] \in fs
    /\ ListedCandidates(model_id)[3] \in fs
    /\ local_path = Some(ListedCandidates(model_id)[2])

(***************************************************************************)
(* The bulk insert on its own: the statement of main.py lines 85-89 given  *)
(* a batch of any size, one row of which may have the wrong width          *)
(* (specification SpecInsert).                                             *)
(***************************************************************************)
BatchOf(n, bad) ==
    [i \in 1..n |->
        [text |-> "row",
         lit  |-> VecLiteral([width |-> IF i = bad THEN 768 ELSE SchemaDim,
                              lead  |-> <<5, 0>>])]]

InitInsert ==
    /\ ProcessInit
    /\ Unused
    /\ provider = CHOOSE m \in Providers : TRUE
    /\ driver \in Drivers
    /\ db = EmptyDb
    /\ runs = 1
    /\ model_id = DEFAULT_MODEL
    /\ fs = {}

\* lines 57-77: connected, schema ensured; then lines 80-84 with any rows
PrepareBatch ==
    /\ pc = "start"
    /\ pc' = "insert"
    /\ conn' = "open"
    /\ Succeed(CreateTable(CreateExtension(View).db).db)
    /\ \E n \in 1..MaxBatch : \E bad \in 0..n : batch' = BatchOf(n, bad)
    /\ UNCHANGED <<runs, raised, stdout, locVars, model_source, model, provider,
                   embeddings, q_arr, driver, results, cos_results, steps, dlVars>>

\* lines 85-89
InsertMany ==
    /\ pc = "insert"
    /\ Statement("insert", "inserted", "insert", execute_values(View, batch))
    /\ UNCHANGED <<driver, runs, stdout, locVars, model_source, model, provider, embeddings,
                   q_arr, conn, results, cos_results, batch, dlVars>>

NextInsert == PrepareBatch \/ InsertMany

SpecInsert == InitInsert /\ [][NextInsert]_vars

C3_AtomicWithinOnePage ==
    (raised # "none" /\ (Len(batch) <= page_size \/ BlockIsTransaction))
        => Len(db.rows) = 0

Models == {DEFAULT_MODEL, <<"org", Sep, "other">>}
Argvs == {<<"download_model.py">>} \cup {<<"download_model.py", m>> : m \in Models}

\* what launching [py, "-m", "pip", "install", "--upgrade", "modelscope"] does
InstallerOutcomes == {"exit0", "exit1", "FileNotFoundError", "PermissionError"}

\* run(cmd): the exit status, or the exception that leaves run
run(outcome) ==
    IF outcome = "exit0" THEN [rc |-> 0, exc |-> "none"]
    ELSE IF outcome = "exit1" THEN [rc |-> 1, exc |-> "none"]
    ELSE IF outcome = "FileNotFoundError" THEN [rc |-> 127, exc |-> "none"]
    ELSE [rc |-> -1, exc |-> outcome]

\* ensure_modelscope_installed: importable before, what the installer does,
\* importable after.  ret is the value returned, exc the exception raised,
\* installs the number of installer launches.
ensure_modelscope_installed(importable, outcome, after) ==
    IF importable THEN [ret |-> TRUE, exc |-> "none", installs |-> 0]
    ELSE LET r == run(outcome)
         IN  IF r.exc # "none" THEN [ret |-> FALSE, exc |-> r.exc, installs |-> 1]
             ELSE IF r.rc = 0 THEN [ret |-> after, exc |-> "none", installs |-> 1]
             ELSE [ret |-> FALSE, exc |-> "none", installs |-> 1]

\* main line 66
ModelArg(av) == IF Len(av) > 1 THEN av[2] ELSE DEFAULT_MODEL

InitDownload ==
    /\ ProcessInit
    /\ Idle
    /\ runs = 1
    /\ model_id = DEFAULT_MODEL
    /\ fs = {}
    /\ batch = <<>>
    /\ argv \in Argvs
    /\ pkgs \in BOOLEAN
    /\ hub \in SUBSET Models
    /\ cache = {}

\* lines 66-67
DlStart ==
    /\ pc = "start"
    /\ pc' = "ensure"
    /\ model_id' = ModelArg(argv)
    /\ stdout' = Append(stdout, "start")
    /\ UNCHANGED <<runs, raised, fs, local_path, orchVars, db, batch, dlVars>>

\* lines 69-73 with ensure_modelscope_installed and run
Ensure ==
    /\ pc = "ensure"
    /\ \E outcome \in InstallerOutcomes : \E after \in BOOLEAN :
          LET e == ensure_modelscope_installed(pkgs, outcome, after)
          IN  /\ (outcome = "exit0") \/ ~after
              /\ pkgs' = (pkgs \/ (e.installs > 0 /\ after))
              /\ steps' = steps \o [i \in 1..e.installs |-> "install"]
                                \o (IF e.exc = "none"
                                    THEN <<IF e.ret THEN "ensure=True" ELSE "ensure=False">>
                                    ELSE <<>>)
              /\ IF e.exc # "none"
                 THEN /\ Raise(e.exc)
                      /\ stdout' = stdout \o [i \in 1..e.installs |-> "installing"]
                      /\ rc' = rc
                 ELSE IF e.ret
                 THEN /\ pc' = "download"
                      /\ stdout' = stdout \o [i \in 1..e.installs |-> "installing"]
                      /\ UNCHANGED <<raised, rc>>
                 ELSE /\ pc' = "done"
                      /\ stdout' = stdout \o [i \in 1..e.installs |-> "installing"]
                                          \o <<"guidance">>
                      /\ rc' = Some(2)
                      /\ UNCHANGED raised
    /\ UNCHANGED <<driver, tx, runs, locVars, model_source, model, provider, embeddings, q_arr,
                   conn, results, cos_results, db, batch, argv, hub, cache>>

\* snapshot_download_model: a cached model is returned without a fetch, a
\* model of the hub is fetched, anything else raises
snapshot_download_model(id, known, cached) ==
    IF id \in cached THEN [exc |-> "none", cache |-> cached, fetched |-> FALSE]
    ELSE IF id \in known THEN [exc |-> "none", cache |-> cached \cup {id}, fetched |-> TRUE]
    ELSE [exc |-> "Exception", cache |-> cached, fetched |-> FALSE]

\* lines 75-81
Download ==
    /\ pc = "download"
    /\ pc' = "done"
    /\ LET r == snapshot_download_model(model_id, hub, cache)
       IN  /\ cache' = r.cache
           /\ IF r.exc = "none"
              THEN /\ steps' = Append(steps, "downloaded")
                   /\ stdout' = Append(stdout, "saved")
                   /\ rc' = Some(0)
              ELSE /\ steps' = Append(steps, "download raised")
                   /\ stdout' = Append(stdout, "error")
                   /\ rc' = Some(1)
    /\ UNCHANGED <<driver, tx, runs, raised, locVars, model_source, model, provider, embeddings,
                   q_arr, conn, results, cos_results, db, batch, argv, pkgs, hub>>

\* lines 84-85: the utility is run again on the same machine
DlRerun ==
    /\ pc \in {"done", "raised"}
    /\ runs < MaxRuns
    /\ runs' = runs + 1
    /\ ProcessStart
    /\ argv' \in Argvs
    /\ UNCHANGED <<driver, model_id, fs, provider, db, batch, pkgs, hub, cache>>

NextDownload == DlStart \/ Ensure \/ Download \/ DlRerun

SpecDownload == InitDownload /\ [][NextDownload]_vars

Has(seq, x) == \E i \in 1..Len(seq) : seq[i] = x

\* C6: every run of main returns 2, 1 or 0: 2 iff the dependency stayed
\* unavailable (and no download was tried), 1 iff the download raised (and
\* a message was printed), 0 iff the download returned a path.
C6_ExitCodes ==
    pc \in {"done", "raised"} =>
        /\ rc # None
        /\ rc[1] \in {0, 1, 2}
        /\ (rc[1] = 2) <=> (Has(steps, "ensure=False") /\ ~Has(steps, "downloaded")
                              /\ ~Has(steps, "download raised"))
        /\ (rc[1] = 1) <=> (Has(steps, "ensure=True") /\ Has(steps, "download raised"))
        /\ (rc[1] = 1) => Has(stdout, "error")
        /\ (rc[1] = 0) <=> Has(steps, "downloaded")

\* The runs C6 is right about: those that return.
C6_ExitCodesWhenReturning ==
    pc = "done" =>
        /\ rc # None
        /\ rc[1] \in {0, 1, 2}
        /\ (rc[1] = 2) <=> (Has(steps, "ensure=False") /\ ~Has(steps, "downloaded")
                              /\ ~Has(steps, "download raised"))
        /\ (rc[1] = 1) <=> (Has(steps, "ensure=True") /\ Has(steps, "download raised"))
        /\ (rc[1] = 1) => Has(stdout, "error")
        /\ (rc[1] = 0) <=> Has(steps, "downloaded")

\* C7: ensure_available returns a boolean and never raises: true without an
\* installer launch when the import works, otherwise one launch, and true
\* only if the launch succeeded and the import then works.
C7_EnsureNeverRaises ==
    pc \notin {"start", "ensure"} =>
        /\ raised = "none"
        /\ Has(steps, "ensure=True") \/ Has(steps, "ensure=False")
        /\ Count(steps, "install") <= 1
        /\ Has(steps, "ensure=True") => pkgs

\* How ensure_available raises: the launch fails with an error run lets by.
C7_Raised == pc = "raised" /\ raised = "PermissionError" /\ rc = None

=============================================================================
